---- MODULE Spec2Model ----
(***************************************************************************)
(* BoardPilot configuration protocol of hidergo/zmk:                       *)
(*   app/src/boardpilot/boardpilot_control.c  frame reassembly, dispatch    *)
(*   app/src/boardpilot/boardpilot.c          field registry, persistence   *)
(*   app/src/usb_hid.c                        transport gate, receive hook  *)
(***************************************************************************)
EXTENDS Integers, Sequences, FiniteSets, TLC

\* ------------------------------------------------------------------------
\* Program constants
\* ------------------------------------------------------------------------
ZMK_BOARDPILOT_CMD_INVALID == 0
ZMK_BOARDPILOT_CMD_CONNECT == 1
ZMK_BOARDPILOT_CMD_SET_CONFIG == 17
ZMK_BOARDPILOT_CMD_GET_CONFIG == 18

\* sizeof(struct zmk_boardpilot_msg_header), packed: 1+1+2+1+2+1
HEADER_SIZE == 8
ZMK_BOARDPILOT_REPORT_SIZE == 32
ZMK_BOARDPILOT_REPORT_DATA_SIZE == ZMK_BOARDPILOT_REPORT_SIZE - HEADER_SIZE
\* the report id every frame must carry
REPORT_ID == 5
\* sizeof(bp_message_buffer), the buffer out_ready_cb hands to parse
RX_BUFFER_SIZE == 64
\* offsetof(struct zmk_boardpilot_msg_set_config, data)
SET_CONFIG_PREFIX == 5
\* sizeof(struct zmk_boardpilot_msg_get_config) - 1
GET_CONFIG_PREFIX == 4

ZMK_BOARDPILOT_FIELD_FLAG_SAVEABLE == 1
ZMK_BOARDPILOT_FIELD_FLAG_READ == 2
ZMK_BOARDPILOT_FIELD_FLAG_WRITTEN == 4

ZMK_CONFIG_KEY_INVALID == 0
ZMK_CONFIG_KEY_DEVICE_INFO == 1
ZMK_CONFIG_KEY_SLEEP_TIMEOUT == 10
ZMK_CONFIG_KEY_KEYMAP == 32
ZMK_CONFIG_KEY_DATETIME == 16384

\* ------------------------------------------------------------------------
\* Bounds of the model
\* ------------------------------------------------------------------------
\* CONFIG_ZMK_BOARDPILOT_MAX_FIELDS (a build-time option)
MaxFields == 2
\* inbound frames delivered in one behaviour of the whole system
MaxFrames == 3
\* bind calls in one behaviour
MaxBinds == 2
\* handler and registry calls, after the binds, in one behaviour of the registry
\* specification
MaxCalls == 1
\* largest total size of the in-order messages
MaxTotal == 100
\* CONFIG_ZMK_BOARDPILOT_MAX_FIELD_SIZE (a build-time option)
MaxFieldSize == 2
\* messages the host sends in one behaviour of the reply specification
MaxRequests == 2
\* bind calls in one behaviour of the bind specification
MaxBindCalls == 4
\* write, read and modification steps in one behaviour of the store specification
MaxStoreCalls == 3

\* ------------------------------------------------------------------------
\* Bytes, integers of fixed width, sequences
\* ------------------------------------------------------------------------
Min(a, b) == IF a <= b THEN a ELSE b

U8(n) == n % 256
U16(n) == n % 65536

\* little-endian encoding of a 16-bit value
LE16(v) == <<v % 256, (v \div 256) % 256>>

Zeros(n) == [i \in 1..n |-> 0]

\* bit b (a power of two) of the flag word f
HasFlag(f, b) == (f \div b) % 2 = 1
SetFlag(f, b) == IF HasFlag(f, b) THEN f ELSE f + b
ClearFlag(f, b) == IF HasFlag(f, b) THEN f - b ELSE f

\* ------------------------------------------------------------------------
\* State
\* ------------------------------------------------------------------------
VARIABLES
    \* boardpilot_control.c: reassembly state shared by parse and the worker
    data_buffer,        \* [alloc, mem]: the malloc'ed message buffer (or NULL)
    data_buffer_len,    \* uint16_t: bytes accumulated for the message
    chunk_recv_len,     \* uint8_t: bytes accumulated for the chunk
    data_header,        \* struct zmk_boardpilot_msg_header
    data_parse_sem,     \* counting semaphore, parse -> worker
    pc,                 \* position of zmk_boardpilot_boardpilot_thread
    reply,              \* get_config: [buf, total] of the reply being streamed
    \* boardpilot.c: registry and persistent store
    bp_initialized,
    fields,
    nvs,
    \* usb_hid.c: transport
    hid_sem,            \* availability gate
    inflight,           \* frames written and not yet completed
    tx,                 \* frames handed to hid_int_ep_write, in order
    \* observation
    last,               \* the operation executed by the last step and its result
    pending,            \* messages signalled complete and not yet taken
    current,            \* the message the worker took the signal of
    halted,             \* the firmware faulted
    nframes,            \* frames received so far
    nbinds,             \* bind calls made so far
    ncalls,             \* handler and registry calls made so far
    sender,             \* in-order sender: [total, seed, sent, signals]
    written,            \* store specification: key and bytes of the last successful write
    keymap              \* codec specification: the binding, the record and the results

vars == <<data_buffer, data_buffer_len, chunk_recv_len, data_header, data_parse_sem,
          pc, reply, bp_initialized, fields, nvs, hid_sem, inflight, tx,
          last, pending, current, halted, nframes, nbinds, ncalls, sender, written, keymap>>

rxVars == <<data_buffer, data_buffer_len, chunk_recv_len, data_header, data_parse_sem>>
regVars == <<bp_initialized, fields, nvs>>
usbVars == <<hid_sem, inflight, tx>>

NULL == [alloc |-> FALSE, mem |-> <<>>]
Malloc(n) == [alloc |-> TRUE, mem |-> Zeros(n)]

\* ------------------------------------------------------------------------
\* Frames
\* ------------------------------------------------------------------------
\* the wire image of struct zmk_boardpilot_msg_header
HeaderBytes(h) ==
    <<h.report_id, h.cmd>> \o LE16(h.size) \o <<h.chunk_size>> \o LE16(h.chunk_offset)
        \o <<h.crc>>

Header(rid, cmd, size, csize, coff) ==
    [report_id |-> rid, cmd |-> cmd, size |-> size, chunk_size |-> csize,
     chunk_offset |-> coff, crc |-> 0]

\* a frame of len bytes: header, payload, zero padding
MkFrame(h, payload, len) ==
    LET full == HeaderBytes(h) \o payload \o Zeros(len)
    IN SubSeq(full, 1, len)

\* byte i (1-based) of what parse reads at data[i-1]: the frame's len bytes, then
\* the zeroed rest of bp_message_buffer, then whatever lies behind that buffer (g)
FrameByte(f, i, g) ==
    IF i <= Len(f) THEN f[i] ELSE IF i <= RX_BUFFER_SIZE THEN 0 ELSE g

\* memcpy(&data_header, data, sizeof(struct zmk_boardpilot_msg_header))
ReadHeader(f, g) ==
    [report_id |-> FrameByte(f, 1, g),
     cmd |-> FrameByte(f, 2, g),
     size |-> FrameByte(f, 3, g) + 256 * FrameByte(f, 4, g),
     chunk_size |-> FrameByte(f, 5, g),
     chunk_offset |-> FrameByte(f, 6, g) + 256 * FrameByte(f, 7, g),
     crc |-> FrameByte(f, 8, g)]

\* ------------------------------------------------------------------------
\* Frame reassembly: zmk_boardpilot_control_parse
\* ------------------------------------------------------------------------
\* WriteMem with the destination offset dropped: memcpy(buf, src, Len(src))
WriteMemAtStart(buf, off, src) ==
    IF ~buf.alloc THEN buf
    ELSE [buf EXCEPT !.mem = [i \in 1..Len(buf.mem) |->
              IF i <= Len(src) THEN src[i] ELSE buf.mem[i]]]

\* memcpy(buf + off, src, Len(src)) restricted to the bytes of the allocation
WriteMem(buf, off, src) ==
    IF ~buf.alloc THEN buf
    ELSE [buf EXCEPT !.mem = [i \in 1..Len(buf.mem) |->
              IF i > off /\ i <= off + Len(src) THEN src[i - off] ELSE buf.mem[i]]]

\* the memory-safety violations of one copy of n bytes from data[srcoff..] of the
\* frame f to buf[off..]
CopyFaults(buf, off, f, srcoff, n) ==
    (IF n > 0 /\ buf.alloc /\ off + n > Len(buf.mem) THEN {"heap_overrun"} ELSE {})
    \cup (IF n > 0 /\ ~buf.alloc THEN {"null_write"} ELSE {})
    \cup (IF n > 0 /\ srcoff + n > Len(f) THEN {"frame_overread"} ELSE {})
    \cup (IF n > 0 /\ srcoff + n > RX_BUFFER_SIZE THEN {"rx_buffer_overread"} ELSE {})

\* faults whose outcome the C language leaves undefined
UndefinedFaults == {"heap_overrun", "null_write", "rx_buffer_overread", "null_read",
                    "msg_overread"}

ParseReturn(st, ret, gave, faults, info) ==
    [data_buffer |-> st.data_buffer, data_buffer_len |-> st.data_buffer_len,
     chunk_recv_len |-> st.chunk_recv_len, data_header |-> st.data_header,
     ret |-> ret, gave |-> gave, faults |-> faults, first |-> info.first,
     chunk_start |-> info.chunk_start, cpy_len |-> info.cpy_len]

\* lines 218-249: the copy of the frame's bytes and the completion test
ParseCopy(st, f, g, first) ==
    LET len == Len(f)
        start == st.chunk_recv_len = 0
        hdr == IF start THEN ReadHeader(f, g) ELSE st.data_header
        \* len - sizeof(header) is unsigned: below zero it wraps to more than any
        \* uint8_t chunk_size
        cpy_len == IF start
                   THEN IF len < HEADER_SIZE THEN hdr.chunk_size
                        ELSE Min(hdr.chunk_size, len - HEADER_SIZE)
                   ELSE hdr.chunk_size - st.chunk_recv_len
        srcoff == IF start THEN HEADER_SIZE ELSE 0
        src == [k \in 1..cpy_len |-> FrameByte(f, srcoff + k, g)]
        buf == WriteMem(st.data_buffer, st.data_buffer_len, src)
        faults == CopyFaults(st.data_buffer, st.data_buffer_len, f, srcoff, cpy_len)
                  \cup (IF start /\ len < HEADER_SIZE THEN {"frame_overread"} ELSE {})
        dbl == U16(st.data_buffer_len + cpy_len)
        crl0 == U8(st.chunk_recv_len + cpy_len)
        crl == IF crl0 >= hdr.chunk_size THEN 0 ELSE crl0
        done == dbl >= hdr.size
    IN ParseReturn([data_buffer |-> buf,
                    data_buffer_len |-> IF done THEN 0 ELSE dbl,
                    chunk_recv_len |-> IF done THEN 0 ELSE crl,
                    data_header |-> hdr],
                   0, done, faults,
                   [first |-> first, chunk_start |-> start, cpy_len |-> cpy_len])

\* lines 196-216: the first frame of a message
ParseFirst(st, f, malloc_ok, g) ==
    LET hdr == ReadHeader(f, g)
        st1 == [st EXCEPT !.data_header = hdr]
        info == [first |-> TRUE, chunk_start |-> TRUE, cpy_len |-> 0]
        short == IF Len(f) < HEADER_SIZE THEN {"frame_overread"} ELSE {}
    IN IF hdr.report_id # REPORT_ID
       THEN ParseReturn(st1, -3, FALSE, short, info)
       ELSE IF ~malloc_ok
            THEN ParseReturn([st1 EXCEPT !.data_buffer = NULL, !.chunk_recv_len = 0],
                             -1, FALSE, short, info)
            ELSE LET r == ParseCopy([st1 EXCEPT !.data_buffer = Malloc(hdr.size),
                                                !.chunk_recv_len = 0], f, g, TRUE)
                 IN [r EXCEPT !.faults = r.faults \cup short]

\* zmk_boardpilot_control_parse(data, len) on the frame f, in the state st
zmk_boardpilot_control_parse(st, f, malloc_ok, g) ==
    IF st.chunk_recv_len = 0 /\ Len(f) < HEADER_SIZE
    THEN ParseReturn(st, -1, FALSE, {},
                     [first |-> st.data_buffer_len = 0, chunk_start |-> TRUE, cpy_len |-> 0])
    ELSE IF st.data_buffer_len = 0
         THEN ParseFirst(st, f, malloc_ok, g)
         ELSE ParseCopy(st, f, g, FALSE)

RxState ==
    [data_buffer |-> data_buffer, data_buffer_len |-> data_buffer_len,
     chunk_recv_len |-> chunk_recv_len, data_header |-> data_header]

\* the message a completion signal stands for
Snapshot(r) == [cmd |-> r.data_header.cmd, size |-> r.data_header.size, buf |-> r.data_buffer]

\* out_ready_cb: one frame arrives and is parsed; crash: an undefined access faulted
Receive(f, malloc_ok, g, crash) ==
    LET r == zmk_boardpilot_control_parse(RxState, f, malloc_ok, g)
        undefined == r.faults \cap UndefinedFaults # {}
    IN /\ ~halted
       /\ crash => undefined
       /\ (g # 0) => "rx_buffer_overread" \in r.faults
       /\ data_buffer' = r.data_buffer
       /\ data_buffer_len' = r.data_buffer_len
       /\ chunk_recv_len' = r.chunk_recv_len
       /\ data_header' = r.data_header
       /\ data_parse_sem' = IF r.gave THEN data_parse_sem + 1 ELSE data_parse_sem
       /\ pending' = IF r.gave THEN Append(pending, Snapshot(r)) ELSE pending
       /\ halted' = crash
       /\ last' = [op |-> "parse", ret |-> r.ret, gave |-> r.gave, faults |-> r.faults,
                   first |-> r.first, chunk_start |-> r.chunk_start,
                   cpy_len |-> r.cpy_len, len |-> Len(f), hdr |-> ReadHeader(f, 0)]

\* ------------------------------------------------------------------------
\* Field registry: boardpilot.c
\* ------------------------------------------------------------------------
\* keys the model binds, looks up and stores under
ModelKeys == {ZMK_CONFIG_KEY_INVALID, ZMK_CONFIG_KEY_SLEEP_TIMEOUT, ZMK_CONFIG_KEY_DATETIME}

\* a slot of fields[] after memset(0): key 0, no flags, size 0, data NULL, no callback
EmptyField == [key |-> ZMK_CONFIG_KEY_INVALID, flags |-> 0, size |-> 0, data |-> <<>>,
               on_update |-> FALSE]

RegState == [init |-> bp_initialized, fields |-> fields, nvs |-> nvs]

\* zmk_boardpilot_get with the loop of line 138 starting at the second slot
GetSkipsFirstSlot(reg, key) ==
    IF ~reg.init THEN 0
    ELSE IF \E i \in 2..MaxFields : reg.fields[i].key = key
         THEN CHOOSE i \in 2..MaxFields :
                  /\ reg.fields[i].key = key
                  /\ \A j \in 2..(i - 1) : reg.fields[j].key # key
         ELSE 0

\* zmk_boardpilot_get: the index of the first slot carrying key, 0 for NULL
zmk_boardpilot_get(reg, key) ==
    IF ~reg.init THEN 0
    ELSE IF \E i \in 1..MaxFields : reg.fields[i].key = key
         THEN CHOOSE i \in 1..MaxFields :
                  /\ reg.fields[i].key = key
                  /\ \A j \in 1..(i - 1) : reg.fields[j].key # key
         ELSE 0

\* WriteFailFlags with the clearing of WRITTEN (line 216) dropped
WriteFailKeepsFlags(flags) == flags

\* the flags of a field after nvs_write failed, line 216
WriteFailFlags(flags) == ClearFlag(flags, ZMK_BOARDPILOT_FIELD_FLAG_WRITTEN)

\* lines 210-212: the mutex of slot i around nvs_write
WriteEvents(i) == <<<<"lock", i>>, <<"nvs_write", i>>, <<"unlock", i>>>>

\* zmk_boardpilot_write; nvs_ok: nvs_write succeeds.  stored: nvs_write was called.
\* ev: the mutex operations and the calls made, in order
zmk_boardpilot_write(reg, key, nvs_ok) ==
    LET i == zmk_boardpilot_get(reg, key) IN
    IF ~reg.init \/ i = 0
    THEN [reg |-> reg, ret |-> -1, stored |-> FALSE, ev |-> <<>>]
    ELSE LET fld == reg.fields[i] IN
         IF ~HasFlag(fld.flags, ZMK_BOARDPILOT_FIELD_FLAG_SAVEABLE)
         THEN [reg |-> reg, ret |-> -1, stored |-> FALSE, ev |-> <<>>]
         ELSE IF ~nvs_ok
              THEN [reg |-> [reg EXCEPT !.fields[i].flags = WriteFailFlags(@)],
                    ret |-> -1, stored |-> TRUE, ev |-> WriteEvents(i)]
              ELSE [reg |-> [reg EXCEPT
                                 !.nvs[fld.key] = SubSeq(fld.data, 1, fld.size),
                                 !.fields[i].flags =
                                     SetFlag(SetFlag(@, ZMK_BOARDPILOT_FIELD_FLAG_READ),
                                             ZMK_BOARDPILOT_FIELD_FLAG_WRITTEN)],
                    ret |-> 0, stored |-> TRUE, ev |-> WriteEvents(i)]

\* memcpy(field->data, _bp_field_buffer, len): nvs_read filled at most MaxFieldSize
\* bytes of _bp_field_buffer; behind the buffer the copy takes whatever lies there (g)
ReadCopy(rec, g) == [k \in 1..Len(rec) |-> IF k <= MaxFieldSize THEN rec[k] ELSE g]

\* SizeMatches accepting every record that is at least as long as the field
SizeCovers(fld, len) == len >= fld.size

\* the test of line 170
SizeMatches(fld, len) == fld.size = len

ReadFail(reg) == [reg |-> reg, ret |-> -1, faults |-> {}, stored |-> FALSE, ev |-> <<>>]

\* lines 162-164: the mutex of slot i taken, then nvs_read
ReadEnter(i) == <<<<"lock", i>>, <<"nvs_read", i>>>>

\* ReadMismatchEvents with the mutex released only after the write returned
ReadMismatchHoldsLock(i, wev) == <<<<"write", i>>>> \o wev \o <<<<"unlock", i>>>>

\* lines 176-179: the mutex released, then zmk_boardpilot_write (its events wev)
ReadMismatchEvents(i, wev) == <<<<"unlock", i>>, <<"write", i>>>> \o wev

\* zmk_boardpilot_read; read_ok: nvs_read succeeds, write_ok: the re-persist succeeds.
\* nvs_read returns the length of the record, also when it exceeds the buffer
zmk_boardpilot_read(reg, key, read_ok, write_ok, g) ==
    LET i == zmk_boardpilot_get(reg, key) IN
    IF ~reg.init \/ i = 0
    THEN ReadFail(reg)
    ELSE LET fld == reg.fields[i]
             rec == reg.nvs[key]
             len == IF read_ok /\ Len(rec) > 0 THEN Len(rec) ELSE -2
         IN IF ~HasFlag(fld.flags, ZMK_BOARDPILOT_FIELD_FLAG_SAVEABLE)
            THEN ReadFail(reg)
            ELSE IF len > 0
                 THEN IF SizeMatches(fld, len)
                      THEN [reg |-> [reg EXCEPT
                                !.fields[i].data = ReadCopy(rec, g),
                                !.fields[i].flags =
                                    SetFlag(SetFlag(@, ZMK_BOARDPILOT_FIELD_FLAG_READ),
                                            ZMK_BOARDPILOT_FIELD_FLAG_WRITTEN)],
                            ret |-> 0,
                            faults |-> IF len > MaxFieldSize
                                       THEN {"field_buffer_overread"} ELSE {},
                            stored |-> FALSE,
                            ev |-> ReadEnter(i) \o <<<<"copy", i>>, <<"unlock", i>>>>]
                      ELSE LET w == zmk_boardpilot_write(reg, fld.key, write_ok)
                               ev == ReadEnter(i) \o ReadMismatchEvents(i, w.ev)
                           IN
                           IF w.ret < 0
                           THEN [reg |-> [w.reg EXCEPT !.fields[i].flags = 0], ret |-> -1,
                                 faults |-> {}, stored |-> w.stored, ev |-> ev]
                           ELSE [reg |-> w.reg, ret |-> 0, faults |-> {},
                                 stored |-> w.stored, ev |-> ev]
                 ELSE [reg |-> [reg EXCEPT !.fields[i].flags =
                                    ClearFlag(@, ZMK_BOARDPILOT_FIELD_FLAG_READ)],
                       ret |-> -1, faults |-> {}, stored |-> FALSE,
                       ev |-> ReadEnter(i) \o <<<<"unlock", i>>>>]

\* FreeSlot falling back on the last slot when the table is full
FreeSlotOrLast(reg) ==
    IF \E i \in 1..MaxFields : reg.fields[i].key = ZMK_CONFIG_KEY_INVALID
    THEN CHOOSE k \in 1..MaxFields :
             /\ reg.fields[k].key = ZMK_CONFIG_KEY_INVALID
             /\ \A j \in 1..(k - 1) : reg.fields[j].key # ZMK_CONFIG_KEY_INVALID
    ELSE MaxFields

\* the loop of lines 104-105: the first slot whose key is ZMK_CONFIG_KEY_INVALID, 0 when
\* the loop ends without one
FreeSlot(reg) ==
    IF \E i \in 1..MaxFields : reg.fields[i].key = ZMK_CONFIG_KEY_INVALID
    THEN CHOOSE k \in 1..MaxFields :
             /\ reg.fields[k].key = ZMK_CONFIG_KEY_INVALID
             /\ \A j \in 1..(k - 1) : reg.fields[j].key # ZMK_CONFIG_KEY_INVALID
    ELSE 0

\* zmk_boardpilot_bind; init_ok: zmk_boardpilot_init succeeds.  ret: the slot, 0 for NULL
zmk_boardpilot_bind(reg, key, data, size, saveable, cb, init_ok, read_ok, write_ok, g) ==
    IF ~reg.init /\ ~init_ok
    THEN [reg |-> reg, ret |-> 0, faults |-> {}]
    ELSE LET reg1 == IF reg.init THEN reg
                     ELSE [reg EXCEPT !.init = TRUE,
                                      !.fields = [i \in 1..MaxFields |-> EmptyField]]
         IN IF zmk_boardpilot_get(reg1, key) # 0
            THEN [reg |-> reg1, ret |-> 0, faults |-> {}]
            ELSE IF FreeSlot(reg1) # 0
                 THEN LET i == FreeSlot(reg1)
                          reg2 == [reg1 EXCEPT !.fields[i] =
                                      [key |-> key,
                                       flags |-> IF saveable
                                                 THEN ZMK_BOARDPILOT_FIELD_FLAG_SAVEABLE
                                                 ELSE 0,
                                       size |-> size, data |-> data, on_update |-> cb]]
                          rd == zmk_boardpilot_read(reg2, key, read_ok, write_ok, g)
                      IN [reg |-> rd.reg, ret |-> i, faults |-> rd.faults]
                 ELSE [reg |-> reg1, ret |-> 0, faults |-> {}]

\* ------------------------------------------------------------------------
\* Command handlers: boardpilot_control.c
\* ------------------------------------------------------------------------
\* byte i (1-based) of the message at buf: behind the end of the allocation, or
\* through a NULL pointer, the read yields whatever the memory there holds (g)
MsgByte(buf, i, g) == IF buf.alloc /\ i <= Len(buf.mem) THEN buf.mem[i] ELSE g

\* the violations of reading bytes 1..n of the message at buf
ReadFaults(buf, n) ==
    IF n = 0 THEN {}
    ELSE IF ~buf.alloc THEN {"null_read"}
         ELSE IF n > Len(buf.mem) THEN {"msg_overread"} ELSE {}

\* struct zmk_boardpilot_msg_set_config seen through the pointer buf
SetConfigMsg(buf, g) ==
    [key |-> MsgByte(buf, 1, g) + 256 * MsgByte(buf, 2, g),
     size |-> MsgByte(buf, 3, g) + 256 * MsgByte(buf, 4, g),
     save |-> MsgByte(buf, 5, g)]

\* memcpy(field->data, &conf->data, n)
SetConfigData(buf, n, g) == [k \in 1..n |-> MsgByte(buf, SET_CONFIG_PREFIX + k, g)]

\* the copy of set_config, lines 58-59
SetConfigCopy(reg, i, buf, g) ==
    [reg EXCEPT !.fields[i].data = SetConfigData(buf, reg.fields[i].size, g)]

\* SetConfigSaves with the test of the SAVEABLE flag dropped
SetConfigSavesAnyField(fld, conf) == conf.save # 0

\* the condition of line 62 under which set_config persists the field
SetConfigSaves(fld, conf) ==
    HasFlag(fld.flags, ZMK_BOARDPILOT_FIELD_FLAG_SAVEABLE) /\ conf.save # 0

\* the bytes of the message a set_config that passed its checks reads: key, size,
\* the data, and save when the field is saveable
SetConfigReads(fld) ==
    IF fld.size > 0 THEN SET_CONFIG_PREFIX + fld.size
    ELSE IF HasFlag(fld.flags, ZMK_BOARDPILOT_FIELD_FLAG_SAVEABLE) THEN SET_CONFIG_PREFIX
         ELSE SET_CONFIG_PREFIX - 1

\* lines 61-71: persist, call back, report.  cb_saw: the field bytes the callback finds
SetConfigFinish(reg, i, conf, faults, nvs_ok) ==
    LET fld == reg.fields[i]
        saves == SetConfigSaves(fld, conf)
        w == IF saves THEN zmk_boardpilot_write(reg, fld.key, nvs_ok)
             ELSE [reg |-> reg, ret |-> 0, stored |-> FALSE, ev |-> <<>>]
    IN [reg |-> w.reg, ret |-> 0, found |-> i, conf |-> conf,
        wrote |-> saves, stored |-> w.stored, write_ret |-> w.ret,
        cb_calls |-> IF fld.on_update THEN 1 ELSE 0,
        cb_saw |-> IF fld.on_update THEN w.reg.fields[i].data ELSE <<>>,
        faults |-> faults,
        ev |-> <<<<"memcpy", i>>>>
               \o (IF saves THEN <<<<"write", i>>>> \o w.ev ELSE <<>>)
               \o (IF fld.on_update THEN <<<<"callback", i>>>> ELSE <<>>)]

SetConfigFail(reg, i, conf, faults) ==
    [reg |-> reg, ret |-> -1, found |-> i, conf |-> conf, wrote |-> FALSE,
     stored |-> FALSE, write_ret |-> 0, cb_calls |-> 0, cb_saw |-> <<>>, faults |-> faults,
     ev |-> <<>>]

\* zmk_boardpilot_set_config(buffer, len); len is not consulted by the code
zmk_boardpilot_set_config(reg, buf, len, g, nvs_ok) ==
    LET conf == SetConfigMsg(buf, g)
        i == zmk_boardpilot_get(reg, conf.key)
    IN IF i = 0
       THEN SetConfigFail(reg, 0, conf, ReadFaults(buf, 2))
       ELSE IF reg.fields[i].size # conf.size
            THEN SetConfigFail(reg, i, conf, ReadFaults(buf, 4))
            ELSE SetConfigFinish(SetConfigCopy(reg, i, buf, g), i, conf,
                                 ReadFaults(buf, SetConfigReads(reg.fields[i])), nvs_ok)

\* struct zmk_boardpilot_msg_get_config seen through the pointer buf
GetConfigMsg(buf, g) ==
    [key |-> MsgByte(buf, 1, g) + 256 * MsgByte(buf, 2, g),
     size |-> MsgByte(buf, 3, g) + 256 * MsgByte(buf, 4, g)]

NoReply == [buf |-> NULL, size |-> 0, total |-> 0, in_buffer |-> <<>>]

\* zmk_boardpilot_get_config up to the switch on the endpoint (lines 82-133);
\* u: the uninitialised content of in_buffer
GetConfigPrepare(reg, rep, buf, g, malloc_ok, u) ==
    LET req == GetConfigMsg(buf, g)
        i == zmk_boardpilot_get(reg, req.key)
    IN IF i = 0
       THEN [ret |-> -1, reply |-> rep, faults |-> ReadFaults(buf, 2)]
       ELSE LET fld == reg.fields[i]
                total_size == GET_CONFIG_PREFIX + fld.size
                hdr == Header(REPORT_ID, ZMK_BOARDPILOT_CMD_GET_CONFIG, total_size,
                              Min(total_size, ZMK_BOARDPILOT_REPORT_DATA_SIZE), 0)
            IN IF fld.size > req.size
               THEN [ret |-> -1, reply |-> rep, faults |-> ReadFaults(buf, 4)]
               ELSE IF ~malloc_ok
                    THEN [ret |-> -1, reply |-> NoReply, faults |-> ReadFaults(buf, 4)]
                    ELSE [ret |-> 0,
                          reply |-> [buf |-> [alloc |-> TRUE,
                                              mem |-> LE16(req.key) \o LE16(fld.size)
                                                      \o SubSeq(fld.data, 1, fld.size)],
                                     size |-> total_size, total |-> 0,
                                     in_buffer |-> HeaderBytes(hdr)
                                         \o [k \in 1..ZMK_BOARDPILOT_REPORT_DATA_SIZE |-> u]],
                          faults |-> ReadFaults(buf, 4)]

\* ReplyFrame with the update of hdr->chunk_offset (line 143) dropped
ReplyFrameNoOffset(rep) ==
    LET diff == rep.size - rep.total
        csize == Min(diff, ZMK_BOARDPILOT_REPORT_DATA_SIZE)
        hdr == Header(REPORT_ID, ZMK_BOARDPILOT_CMD_GET_CONFIG, rep.size, csize, 0)
    IN [k \in 1..ZMK_BOARDPILOT_REPORT_SIZE |->
           IF k <= HEADER_SIZE THEN HeaderBytes(hdr)[k]
           ELSE IF k - HEADER_SIZE <= csize THEN rep.buf.mem[rep.total + k - HEADER_SIZE]
                ELSE rep.in_buffer[k]]

\* the frame of one pass of the send loop, lines 141-149
ReplyFrame(rep) ==
    LET diff == rep.size - rep.total
        csize == Min(diff, ZMK_BOARDPILOT_REPORT_DATA_SIZE)
        hdr == Header(REPORT_ID, ZMK_BOARDPILOT_CMD_GET_CONFIG, rep.size, csize, rep.total)
    IN [k \in 1..ZMK_BOARDPILOT_REPORT_SIZE |->
           IF k <= HEADER_SIZE THEN HeaderBytes(hdr)[k]
           ELSE IF k - HEADER_SIZE <= csize THEN rep.buf.mem[rep.total + k - HEADER_SIZE]
                ELSE rep.in_buffer[k]]

\* ------------------------------------------------------------------------
\* Transport: usb_hid.c
\* ------------------------------------------------------------------------
\* zmk_usb_hid_send_report(report, len) in the state usb = [hid_sem, inflight, tx];
\* status: zmk_usb_get_status(), ok: the call the status selects succeeds
zmk_usb_hid_send_report(usb, report, status, ok) ==
    IF status = "suspend"
    THEN [usb |-> usb, err |-> IF ok THEN 0 ELSE -1, took |-> FALSE, wrote |-> FALSE]
    ELSE IF status = "disconnected"
         THEN [usb |-> usb, err |-> -19, took |-> FALSE, wrote |-> FALSE]
         ELSE LET took == usb.hid_sem > 0
                  sem1 == IF took THEN usb.hid_sem - 1 ELSE usb.hid_sem
              IN IF ok
                 THEN [usb |-> [hid_sem |-> sem1, inflight |-> usb.inflight + 1,
                                tx |-> Append(usb.tx, report)],
                       err |-> 0, took |-> took, wrote |-> TRUE]
                 ELSE [usb |-> [usb EXCEPT !.hid_sem = Min(sem1 + 1, 1)],
                       err |-> -1, took |-> took, wrote |-> FALSE]

UsbState == [hid_sem |-> hid_sem, inflight |-> inflight, tx |-> tx]

\* ------------------------------------------------------------------------
\* The worker: zmk_boardpilot_boardpilot_thread
\* ------------------------------------------------------------------------
NoMsg == [cmd |-> -1, size |-> 0, buf |-> NULL]

\* bytes an undefined read may yield
Garbage == {0, 238}
\* endpoints zmk_endpoints_selected() may report
Endpoints == {"usb", "ble"}
\* zmk_usb_get_status()
UsbStatus == {"configured", "suspend", "disconnected"}

\* k_sem_take(&data_parse_sem, K_FOREVER)
WorkerTake ==
    /\ ~halted
    /\ pc = "wait"
    /\ data_parse_sem > 0
    /\ data_parse_sem' = data_parse_sem - 1
    /\ pc' = "dispatch"
    /\ current' = Head(pending)
    /\ pending' = Tail(pending)
    /\ last' = [op |-> "take"]
    /\ UNCHANGED <<data_buffer, data_buffer_len, chunk_recv_len, data_header, reply,
                   regVars, usbVars, halted, nframes, nbinds, ncalls, sender, written, keymap>>

\* what a dispatch leaves for observation
Dispatched(ret, set) ==
    [op |-> "dispatch", cmd |-> data_header.cmd, size |-> data_header.size,
     buf |-> data_buffer, ret |-> ret, set |-> set]

\* case ZMK_BOARDPILOT_CMD_SET_CONFIG
DispatchSetConfig(g, nvs_ok, crash) ==
    LET r == zmk_boardpilot_set_config(RegState, data_buffer, data_header.size, g, nvs_ok)
    IN /\ data_header.cmd = ZMK_BOARDPILOT_CMD_SET_CONFIG
       /\ crash => r.faults # {}
       /\ (g # 0) => r.faults # {}
       /\ (~nvs_ok) => r.stored
       /\ bp_initialized' = r.reg.init
       /\ fields' = r.reg.fields
       /\ nvs' = r.reg.nvs
       /\ halted' = crash
       /\ pc' = "free"
       /\ last' = Dispatched(r.ret, r)
       /\ UNCHANGED <<reply, usbVars>>

\* case ZMK_BOARDPILOT_CMD_GET_CONFIG, up to the send loop
DispatchGetConfig(g, malloc_ok, u, endpoint, crash) ==
    LET r == GetConfigPrepare(RegState, reply, data_buffer, g, malloc_ok, u)
    IN /\ data_header.cmd = ZMK_BOARDPILOT_CMD_GET_CONFIG
       /\ crash => r.faults # {}
       /\ (g # 0) => r.faults # {}
       /\ (u # 0 \/ endpoint # "usb") => (r.ret = 0)
       /\ reply' = r.reply
       /\ halted' = crash
       /\ pc' = IF r.ret = 0 /\ endpoint = "usb" THEN "send" ELSE "free"
       /\ tx' = IF r.ret = 0 /\ endpoint = "usb" THEN <<>> ELSE tx
       /\ last' = Dispatched(r.ret, [faults |-> r.faults])
       /\ UNCHANGED <<regVars, hid_sem, inflight>>

\* case ZMK_BOARDPILOT_CMD_CONNECT, ZMK_BOARDPILOT_CMD_INVALID and default
DispatchOther ==
    /\ data_header.cmd \notin {ZMK_BOARDPILOT_CMD_SET_CONFIG, ZMK_BOARDPILOT_CMD_GET_CONFIG}
    /\ last' = Dispatched(IF data_header.cmd = ZMK_BOARDPILOT_CMD_CONNECT THEN 0 ELSE -2,
                          [faults |-> {}])
    /\ pc' = "free"
    /\ UNCHANGED <<reply, regVars, usbVars, halted>>

\* the switch on data_header.cmd, lines 263-278
WorkerDispatch ==
    /\ ~halted
    /\ pc = "dispatch"
    /\ \/ \E g \in Garbage, nvs_ok \in BOOLEAN, crash \in BOOLEAN :
              DispatchSetConfig(g, nvs_ok, crash)
       \/ \E g \in Garbage, malloc_ok \in BOOLEAN, u \in Garbage, e \in Endpoints,
             crash \in BOOLEAN : DispatchGetConfig(g, malloc_ok, u, e, crash)
       \/ DispatchOther
    /\ UNCHANGED <<rxVars, pending, current, nframes, nbinds, ncalls, sender, written, keymap>>

\* SendLoopEnds with the break on a failed send (lines 152-156) dropped
SendLoopIgnoresError(err, total, size) == total >= size

\* the send loop of get_config is left: a send failed, or everything was sent
SendLoopEnds(err, total, size) == err # 0 \/ total >= size

\* one pass of the send loop of get_config (lines 140-159), and the release of the
\* reply buffer (lines 160-162) when the loop ends
WorkerSend ==
    /\ ~halted
    /\ pc = "send"
    /\ \E status \in UsbStatus, ok \in BOOLEAN :
          LET frame == ReplyFrame(reply)
              r == zmk_usb_hid_send_report(UsbState, frame, status, ok)
              total == reply.total + Min(reply.size - reply.total,
                                         ZMK_BOARDPILOT_REPORT_DATA_SIZE)
          IN /\ (status = "disconnected") => ok
             /\ hid_sem' = r.usb.hid_sem
             /\ inflight' = r.usb.inflight
             /\ tx' = r.usb.tx
             /\ last' = [op |-> "send", err |-> r.err, took |-> r.took, wrote |-> r.wrote,
                         gate |-> hid_sem, busy |-> inflight, status |-> status]
             /\ IF SendLoopEnds(r.err, total, reply.size)
                THEN /\ reply' = NoReply
                     /\ pc' = "free"
                ELSE /\ reply' = [reply EXCEPT !.total = total, !.in_buffer = frame]
                     /\ pc' = "send"
    /\ UNCHANGED <<rxVars, regVars, pending, current, halted, nframes, nbinds, ncalls, sender, written, keymap>>

\* lines 280-283, and back to k_sem_take
WorkerFree ==
    /\ ~halted
    /\ pc = "free"
    /\ data_buffer' = NULL
    /\ pc' = "wait"
    /\ current' = NoMsg
    /\ last' = [op |-> "free", freed |-> data_buffer.alloc]
    /\ UNCHANGED <<data_buffer_len, chunk_recv_len, data_header, data_parse_sem, reply,
                   regVars, usbVars, pending, halted, nframes, nbinds, ncalls, sender, written, keymap>>

\* in_ready_cb: the transport completed a frame
InReady ==
    /\ ~halted
    /\ inflight > 0
    /\ inflight' = inflight - 1
    /\ hid_sem' = Min(hid_sem + 1, 1)
    /\ last' = [op |-> "in_ready", gate |-> hid_sem]
    /\ UNCHANGED <<rxVars, pc, reply, regVars, tx, pending, current, halted, nframes,
                   nbinds, ncalls, sender, written, keymap>>

\* ------------------------------------------------------------------------
\* Initial state
\* ------------------------------------------------------------------------
ZeroHeader == Header(0, 0, 0, 0, 0)
NotWritten == [key |-> ZMK_CONFIG_KEY_INVALID, data |-> <<>>]
NoKeymap == [phase |-> "none"]
IdleSender == [total |-> 0, seed |-> 0, sent |-> 0, frames |-> 0, signals |-> 0]

\* static storage after boot, the worker parked in k_sem_take, the store as s,
\* the codec's caller holding km
InitState(s, km) ==
    /\ data_buffer = NULL
    /\ data_buffer_len = 0
    /\ chunk_recv_len = 0
    /\ data_header = ZeroHeader
    /\ data_parse_sem = 0
    /\ pc = "wait"
    /\ reply = NoReply
    /\ bp_initialized = FALSE
    /\ fields = [i \in 1..MaxFields |-> EmptyField]
    /\ nvs = s
    /\ hid_sem = 1
    /\ inflight = 0
    /\ tx = <<>>
    /\ last = [op |-> "boot"]
    /\ pending = <<>>
    /\ current = NoMsg
    /\ halted = FALSE
    /\ nframes = 0
    /\ nbinds = 0
    /\ ncalls = 0
    /\ written = NotWritten
    /\ keymap = km

InitWith(s) == InitState(s, NoKeymap)

EmptyStore == [k \in ModelKeys |-> <<>>]

Init == InitWith(EmptyStore) /\ sender = IdleSender

\* ------------------------------------------------------------------------
\* The whole system: feature modules bind, frames arrive, the worker runs
\* ------------------------------------------------------------------------
\* what a feature module passes to bind: size, saveable, callback, default value
Module(key) ==
    IF key = ZMK_CONFIG_KEY_SLEEP_TIMEOUT
    THEN [size |-> 2, saveable |-> TRUE, cb |-> TRUE, data |-> <<17, 18>>]
    ELSE [size |-> 1, saveable |-> FALSE, cb |-> FALSE, data |-> <<17>>]

Bind(key, data, size, saveable, cb, init_ok, read_ok, write_ok, g) ==
    LET r == zmk_boardpilot_bind(RegState, key, data, size, saveable, cb,
                                 init_ok, read_ok, write_ok, g)
    IN /\ ~halted
       /\ (g # 0) => r.faults # {}
       /\ nbinds < MaxBinds
       /\ nbinds' = nbinds + 1
       /\ bp_initialized' = r.reg.init
       /\ fields' = r.reg.fields
       /\ nvs' = r.reg.nvs
       /\ last' = [op |-> "bind", key |-> key, size |-> size, ret |-> r.ret]
       /\ UNCHANGED <<rxVars, pc, reply, usbVars, pending, current, halted, nframes,
                      ncalls, sender, written, keymap>>

\* the feature modules bind at start-up, before the host sends the first frame
SysBind ==
    /\ nframes = 0
    /\ \E key \in {ZMK_CONFIG_KEY_SLEEP_TIMEOUT, ZMK_CONFIG_KEY_DATETIME}, g \in Garbage :
           LET m == Module(key)
           IN Bind(key, m.data, m.size, m.saveable, m.cb, TRUE, TRUE, TRUE, g)

\* payloads of the commands
SetConfigPayload(key, size, save, data) == LE16(key) \o LE16(size) \o <<save>> \o data
GetConfigPayload(key, size) == LE16(key) \o LE16(size)
Pattern(seed, from, n) == [k \in 1..n |-> (seed + from + k - 1) % 256]

\* the frames the host sends in the whole-system specification
SysFrames ==
    LET set == SetConfigPayload(ZMK_CONFIG_KEY_SLEEP_TIMEOUT, 2, 1, <<52, 18>>)
        get == GetConfigPayload(ZMK_CONFIG_KEY_SLEEP_TIMEOUT, 2)
        S == ZMK_BOARDPILOT_CMD_SET_CONFIG
        G == ZMK_BOARDPILOT_CMD_GET_CONFIG
        C == ZMK_BOARDPILOT_CMD_CONNECT
    IN { MkFrame(Header(REPORT_ID, S, 7, 7, 0), set, 32),
         MkFrame(Header(REPORT_ID, G, 4, 4, 0), get, 32),
         MkFrame(Header(REPORT_ID, C, 30, 24, 0), Pattern(1, 0, 24), 32),
         MkFrame(Header(REPORT_ID, C, 30, 6, 24), Pattern(1, 24, 6), 32),
         MkFrame(Header(REPORT_ID, C, 30, 6, 0), Pattern(1, 24, 6), 32),
         MkFrame(Header(0, G, 4, 4, 0), get, 32),
         MkFrame(Header(REPORT_ID, S, 7, 7, 0), set, 4),
         MkFrame(Header(REPORT_ID, S, 7, 24, 0), set, 32),
         MkFrame(Header(REPORT_ID, C, 30, 30, 0), Pattern(1, 0, 24), 32) }

SysReceive ==
    /\ nframes < MaxFrames
    /\ nframes' = nframes + 1
    /\ \E f \in SysFrames, malloc_ok \in BOOLEAN, g \in Garbage, crash \in BOOLEAN :
          /\ (~malloc_ok) => (data_buffer_len = 0 /\ Len(f) >= HEADER_SIZE)
          /\ Receive(f, malloc_ok, g, crash)
    /\ UNCHANGED <<pc, reply, regVars, usbVars, current, nbinds, ncalls, sender, written, keymap>>

Next ==
    \/ SysBind
    \/ SysReceive
    \/ WorkerTake
    \/ WorkerDispatch
    \/ WorkerSend
    \/ WorkerFree
    \/ InReady

Spec == Init /\ [][Next]_vars

\* ------------------------------------------------------------------------
\* The registry and the command handlers called directly
\* ------------------------------------------------------------------------
\* records the store may hold at boot: none, or one left by any earlier firmware
StoredAtBoot == {<<>>, <<9>>, <<9, 8>>}
DefaultData(size) == SubSeq(<<17, 18>>, 1, size)

InitReg ==
    /\ \E a \in StoredAtBoot :
           InitWith([k \in ModelKeys |->
                        IF k = ZMK_CONFIG_KEY_SLEEP_TIMEOUT THEN a ELSE <<>>])
    /\ sender = IdleSender

\* the size of the variable a module binds under key
SizeOf(key) == IF key = ZMK_CONFIG_KEY_SLEEP_TIMEOUT THEN 2 ELSE 1

RegBind ==
    /\ ncalls = 0
    /\ \E key \in ModelKeys, saveable \in BOOLEAN, cb \in BOOLEAN,
          init_ok \in BOOLEAN, read_ok \in BOOLEAN, write_ok \in BOOLEAN, g \in Garbage :
           /\ (~init_ok) => ~bp_initialized
           /\ (~read_ok \/ ~write_ok) => saveable
           /\ Bind(key, DefaultData(SizeOf(key)), SizeOf(key), saveable, cb,
                   init_ok, read_ok, write_ok, g)

\* SET_CONFIG messages as the worker hands them over: a buffer of total bytes
SetConfigMsgs ==
    UNION { { [alloc |-> TRUE,
               mem |-> SubSeq(SetConfigPayload(k, d, sv, <<161, 162>>), 1, t)] :
                 t \in {SET_CONFIG_PREFIX + d - 1, SET_CONFIG_PREFIX + d} } :
            k \in ModelKeys, d \in 0..2, sv \in {0, 1} }

RegSetConfig ==
    /\ ~halted
    /\ ncalls < MaxCalls
    /\ ncalls' = ncalls + 1
    /\ \E buf \in SetConfigMsgs, g \in Garbage, nvs_ok \in BOOLEAN :
          LET r == zmk_boardpilot_set_config(RegState, buf, Len(buf.mem), g, nvs_ok)
          IN /\ (g # 0) => r.faults # {}
             /\ (~nvs_ok) => r.stored
             /\ bp_initialized' = r.reg.init
             /\ fields' = r.reg.fields
             /\ nvs' = r.reg.nvs
             /\ last' = [op |-> "set_config", buf |-> buf, ret |-> r.ret,
                         found |-> r.found, conf |-> r.conf, wrote |-> r.wrote,
                         stored |-> r.stored, write_ret |-> r.write_ret,
                         cb_calls |-> r.cb_calls, cb_saw |-> r.cb_saw,
                         faults |-> r.faults, ev |-> r.ev]
    /\ UNCHANGED <<rxVars, pc, reply, usbVars, pending, current, halted, nframes, nbinds,
                   sender, written, keymap>>

RegRead ==
    /\ ~halted
    /\ ncalls < MaxCalls
    /\ ncalls' = ncalls + 1
    /\ \E key \in ModelKeys, read_ok \in BOOLEAN, write_ok \in BOOLEAN, g \in Garbage :
          LET r == zmk_boardpilot_read(RegState, key, read_ok, write_ok, g)
          IN /\ (g # 0) => r.faults # {}
             /\ bp_initialized' = r.reg.init
             /\ fields' = r.reg.fields
             /\ nvs' = r.reg.nvs
             /\ last' = [op |-> "read", key |-> key, ret |-> r.ret, ev |-> r.ev]
    /\ UNCHANGED <<rxVars, pc, reply, usbVars, pending, current, halted, nframes, nbinds,
                   sender, written, keymap>>

RegWrite ==
    /\ ~halted
    /\ ncalls < MaxCalls
    /\ ncalls' = ncalls + 1
    /\ \E key \in ModelKeys, nvs_ok \in BOOLEAN :
          LET r == zmk_boardpilot_write(RegState, key, nvs_ok)
          IN /\ bp_initialized' = r.reg.init
             /\ fields' = r.reg.fields
             /\ nvs' = r.reg.nvs
             /\ last' = [op |-> "write", key |-> key, ret |-> r.ret, stored |-> r.stored,
                         ev |-> r.ev]
    /\ UNCHANGED <<rxVars, pc, reply, usbVars, pending, current, halted, nframes, nbinds,
                   sender, written, keymap>>

NextReg ==
    \/ RegBind
    \/ RegSetConfig
    \/ RegRead
    \/ RegWrite

SpecReg == InitReg /\ [][NextReg]_vars

\* ------------------------------------------------------------------------
\* A host that sends one message as in-order frames
\* ------------------------------------------------------------------------
Seeds == {1, 200}
Payload(seed, total) == Pattern(seed, 0, total)

InitInOrder ==
    /\ InitWith(EmptyStore)
    /\ \E total \in 1..MaxTotal, seed \in Seeds :
           sender = [total |-> total, seed |-> seed, sent |-> 0, frames |-> 0,
                     signals |-> 0]

\* the next frame of the message: report id 0x05, size = total, chunk_offset = bytes
\* sent, chunk_size = min(remaining, 24); either a full report or header + chunk
InOrderFrame(snd, len) ==
    LET csize == Min(snd.total - snd.sent, ZMK_BOARDPILOT_REPORT_DATA_SIZE)
    IN MkFrame(Header(REPORT_ID, ZMK_BOARDPILOT_CMD_SET_CONFIG, snd.total, csize, snd.sent),
               SubSeq(Payload(snd.seed, snd.total), snd.sent + 1, snd.sent + csize), len)

SendInOrder ==
    /\ sender.sent < sender.total
    /\ LET csize == Min(sender.total - sender.sent, ZMK_BOARDPILOT_REPORT_DATA_SIZE)
       IN \E len \in {HEADER_SIZE + csize, ZMK_BOARDPILOT_REPORT_SIZE} :
             /\ Receive(InOrderFrame(sender, len), TRUE, 0, FALSE)
             /\ sender' = [sender EXCEPT !.sent = @ + csize, !.frames = @ + 1,
                                         !.signals = @ + (data_parse_sem' - data_parse_sem)]
    /\ nframes' = nframes + 1
    /\ UNCHANGED <<pc, reply, regVars, usbVars, current, nbinds, ncalls, written, keymap>>

NextInOrder == SendInOrder

SpecInOrder == InitInOrder /\ [][NextInOrder]_vars

\* ------------------------------------------------------------------------
\* Replies: modules bind, the host requests fields, the worker streams them
\* ------------------------------------------------------------------------
\* a field whose reply takes three frames: 24, 24 and 1 bytes
LongField == 2 * ZMK_BOARDPILOT_REPORT_DATA_SIZE - GET_CONFIG_PREFIX + 1

\* what the modules of this specification pass to bind
GetModule(key) ==
    IF key = ZMK_CONFIG_KEY_SLEEP_TIMEOUT
    THEN [size |-> 2, saveable |-> TRUE, cb |-> FALSE, data |-> <<17, 18>>]
    ELSE [size |-> LongField, saveable |-> FALSE, cb |-> FALSE,
          data |-> Pattern(3, 0, LongField)]

GetBind ==
    /\ nframes = 0
    /\ \E key \in {ZMK_CONFIG_KEY_SLEEP_TIMEOUT, ZMK_CONFIG_KEY_DATETIME}, g \in Garbage :
           LET m == GetModule(key)
           IN Bind(key, m.data, m.size, m.saveable, m.cb, TRUE, TRUE, TRUE, g)

\* the requests of the host, as key and maxSize: every key with a maxSize that
\* suffices, and one with a maxSize that is too small
GetRequests ==
    {<<k, LongField>> : k \in ModelKeys} \cup {<<ZMK_CONFIG_KEY_SLEEP_TIMEOUT, 1>>}

\* the messages the host sends, each in one frame: the GET_CONFIG requests, a
\* SET_CONFIG and a CONNECT
GetFrames ==
    { MkFrame(Header(REPORT_ID, ZMK_BOARDPILOT_CMD_GET_CONFIG, 4, 4, 0),
              GetConfigPayload(q[1], q[2]), 32) : q \in GetRequests }
    \cup { MkFrame(Header(REPORT_ID, ZMK_BOARDPILOT_CMD_SET_CONFIG, 7, 7, 0),
                   SetConfigPayload(ZMK_CONFIG_KEY_SLEEP_TIMEOUT, 2, 0, <<52, 18>>), 32),
           MkFrame(Header(REPORT_ID, ZMK_BOARDPILOT_CMD_CONNECT, 1, 1, 0), <<1>>, 32) }

GetReceive ==
    /\ nframes < MaxRequests
    /\ nframes' = nframes + 1
    /\ \E f \in GetFrames : Receive(f, TRUE, 0, FALSE)
    /\ UNCHANGED <<pc, reply, regVars, usbVars, current, nbinds, ncalls, sender, written, keymap>>

NextGet ==
    \/ GetBind
    \/ GetReceive
    \/ WorkerTake
    \/ WorkerDispatch
    \/ WorkerSend
    \/ WorkerFree
    \/ InReady

SpecGet == Init /\ [][NextGet]_vars

\* the worker thread is scheduled: a step of its loop that stays possible is taken.
\* k_sem_take on the gate waits at most 30 ms, so a pass of the send loop never blocks
SpecGetFair ==
    /\ Init
    /\ [][NextGet]_vars
    /\ WF_vars(WorkerTake)
    /\ WF_vars(WorkerDispatch)
    /\ WF_vars(WorkerSend)
    /\ WF_vars(WorkerFree)

\* ------------------------------------------------------------------------
\* The registry under bind and get alone
\* ------------------------------------------------------------------------
\* keys the modules bind and look up; one more key than the table has slots
BindKeys == {ZMK_CONFIG_KEY_INVALID, ZMK_CONFIG_KEY_DEVICE_INFO,
             ZMK_CONFIG_KEY_SLEEP_TIMEOUT, ZMK_CONFIG_KEY_KEYMAP, ZMK_CONFIG_KEY_DATETIME}

\* the convention of boardpilot.h: keys below 0x4000 are saved, the others are not
Saveable(key) == key < ZMK_CONFIG_KEY_DATETIME

InitBind ==
    /\ \E a \in StoredAtBoot :
           InitWith([k \in BindKeys |->
                        IF k = ZMK_CONFIG_KEY_SLEEP_TIMEOUT THEN a ELSE <<>>])
    /\ sender = IdleSender

\* zmk_boardpilot_bind called by a module, with a variable of one or two bytes
BindAny ==
    /\ nbinds < MaxBindCalls
    /\ nbinds' = nbinds + 1
    /\ \E key \in BindKeys, size \in 1..2, init_ok \in BOOLEAN, g \in Garbage :
          LET r == zmk_boardpilot_bind(RegState, key, DefaultData(size), size,
                                       Saveable(key), FALSE, init_ok, TRUE, TRUE, g)
          IN /\ (~init_ok) => ~bp_initialized
             /\ (g # 0) => r.faults # {}
             /\ bp_initialized' = r.reg.init
             /\ fields' = r.reg.fields
             /\ nvs' = r.reg.nvs
             /\ last' = [op |-> "bind", key |-> key, size |-> size, ret |-> r.ret]
    /\ UNCHANGED <<rxVars, pc, reply, usbVars, pending, current, halted, nframes,
                   ncalls, sender, written, keymap>>

\* zmk_boardpilot_get called by a module
GetAny ==
    /\ \E key \in BindKeys :
          last' = [op |-> "get", key |-> key, ret |-> zmk_boardpilot_get(RegState, key)]
    /\ UNCHANGED <<rxVars, pc, reply, regVars, usbVars, pending, current, halted,
                   nframes, nbinds, ncalls, sender, written, keymap>>

NextBind ==
    \/ BindAny
    \/ GetAny

SpecBind == InitBind /\ [][NextBind]_vars

\* ------------------------------------------------------------------------
\* The registry and the store: modules bind, then write, change and read fields
\* ------------------------------------------------------------------------
\* sizes of the variables the modules bind: below, at and above the field buffer
StoreSizes == {1, MaxFieldSize, MaxFieldSize + 1}
\* records the store may hold at boot, the longest above the field buffer
StoreRecords == {<<>>, Pattern(9, 0, MaxFieldSize), Pattern(9, 0, MaxFieldSize + 1)}

InitStore ==
    /\ \E a \in StoreRecords :
           InitWith([k \in ModelKeys |->
                        IF k = ZMK_CONFIG_KEY_SLEEP_TIMEOUT THEN a ELSE <<>>])
    /\ sender = IdleSender

StoreBind ==
    /\ ncalls = 0
    /\ \E key \in {ZMK_CONFIG_KEY_SLEEP_TIMEOUT, ZMK_CONFIG_KEY_DATETIME},
          size \in StoreSizes, saveable \in BOOLEAN, read_ok \in BOOLEAN,
          write_ok \in BOOLEAN, g \in Garbage :
           /\ (~read_ok \/ ~write_ok) => saveable
           /\ (~read_ok) => write_ok
           /\ Bind(key, Pattern(17, 0, size), size, saveable, FALSE, TRUE, read_ok, write_ok, g)

\* zmk_boardpilot_write called by a module
StoreWrite ==
    /\ ncalls < MaxStoreCalls
    /\ ncalls' = ncalls + 1
    /\ \E key \in ModelKeys, nvs_ok \in BOOLEAN :
          LET r == zmk_boardpilot_write(RegState, key, nvs_ok)
          IN /\ (~nvs_ok) => r.stored
             /\ bp_initialized' = r.reg.init
             /\ fields' = r.reg.fields
             /\ nvs' = r.reg.nvs
             /\ written' = IF r.ret = 0 THEN [key |-> key, data |-> nvs'[key]]
                           ELSE written
             /\ last' = [op |-> "write", key |-> key, ret |-> r.ret, stored |-> r.stored,
                         nvs_ok |-> nvs_ok]
    /\ UNCHANGED <<rxVars, pc, reply, usbVars, pending, current, halted, nframes, nbinds,
                   sender, keymap>>

\* a module assigns to the variable it bound (field->data points at it)
StoreModify ==
    /\ ncalls < MaxStoreCalls
    /\ ncalls' = ncalls + 1
    /\ bp_initialized
    /\ \E i \in 1..MaxFields, seed \in {17, 77} :
          /\ fields[i].key # ZMK_CONFIG_KEY_INVALID
          /\ fields[i].data # Pattern(seed, 0, fields[i].size)
          /\ fields' = [fields EXCEPT ![i].data = Pattern(seed, 0, fields[i].size)]
          /\ last' = [op |-> "modify", key |-> fields[i].key]
    /\ UNCHANGED <<rxVars, pc, reply, bp_initialized, nvs, usbVars, pending, current,
                   halted, nframes, nbinds, sender, written, keymap>>

\* zmk_boardpilot_read called by a module
StoreRead ==
    /\ ncalls < MaxStoreCalls
    /\ ncalls' = ncalls + 1
    /\ \E key \in ModelKeys, read_ok \in BOOLEAN, write_ok \in BOOLEAN, g \in Garbage :
          LET r == zmk_boardpilot_read(RegState, key, read_ok, write_ok, g)
          IN /\ (g # 0) => r.faults # {}
             /\ (~write_ok) => r.stored
             /\ bp_initialized' = r.reg.init
             /\ fields' = r.reg.fields
             /\ nvs' = r.reg.nvs
             /\ written' = IF r.stored /\ r.ret = 0 THEN [key |-> key, data |-> nvs'[key]]
                           ELSE written
             /\ last' = [op |-> "read", key |-> key, ret |-> r.ret, read_ok |-> read_ok,
                         write_ok |-> write_ok, stored |-> r.stored, faults |-> r.faults]
    /\ UNCHANGED <<rxVars, pc, reply, usbVars, pending, current, halted, nframes, nbinds,
                   sender, keymap>>

NextStore ==
    \/ StoreBind
    \/ StoreWrite
    \/ StoreModify
    \/ StoreRead

SpecStore == InitStore /\ [][NextStore]_vars

\* ------------------------------------------------------------------------
\* Keymap codec specification: a caller converts a binding to a record and the
\* record back, or converts a record loaded from elsewhere
\* ------------------------------------------------------------------------
\* ZMK_BOARDPILOT_DEVICE_ID[]: entry i of the C array is ZMK_BOARDPILOT_DEVICE_ID[i + 1]
ZMK_BOARDPILOT_DEVICE_ID ==
    <<"TRANS", "BCKLGHT", "BLUETOOTH", "CAPS_WORD", "EXT_POWER", "GRAVE_ESCAPE",
      "KEY_PRESS", "KEY_REPEAT", "KEY_TOGGLE", "LAYER_TAP", "MAC_TAP", "MAC_PRESS",
      "MAC_REL", "MAC_TAP_TIME", "MAC_WAIT_TIME", "MAC_WAIT_REL", "MOD_TAP", "MO",
      "MOUSE_KEY_PRESS", "MOUSE_MOVE", "MOUSE_SCROLL", "NONE", "OUTPUTS", "RESET",
      "BOOTLOAD", "RGB_UG", "ENC_KEY_PRESS", "STICKY_KEY", "STICKY_LAYER", "TO_LAYER",
      "TOGGLE_LAYER">>

\* sizeof(ZMK_BOARDPILOT_DEVICE_ID) / sizeof(const char *)
DeviceTableSize == Len(ZMK_BOARDPILOT_DEVICE_ID)

\* the null pointer, and a pointer that addresses no device name
NullName == "<NULL>"
WildName == "<WILD>"
\* what the word behind the last table entry can hold
BehindTable == {NullName, WildName}

\* id & 0x7F
DeviceIndex(id) == id % 128

\* the bound test of zmk_boardpilot_keymap_device_name: TRUE when the id is refused
DeviceIndexRefused(idx) == idx > DeviceTableSize

\* the table read of zmk_boardpilot_keymap_device_name goes past the array
DeviceNameFaults(id) ==
    IF ~DeviceIndexRefused(DeviceIndex(id)) /\ DeviceIndex(id) >= DeviceTableSize
    THEN {"table_overread"} ELSE {}

\* zmk_boardpilot_keymap_device_name(id); behind is the word read past the table
zmk_boardpilot_keymap_device_name(id, behind) ==
    IF DeviceIndexRefused(DeviceIndex(id)) THEN NullName
    ELSE IF DeviceIndex(id) < DeviceTableSize
         THEN ZMK_BOARDPILOT_DEVICE_ID[DeviceIndex(id) + 1]
         ELSE behind

\* zmk_boardpilot_keymap_device_id(device_name): first index whose entry compares
\* equal, -1 when the loop ends without one
zmk_boardpilot_keymap_device_id(device_name) ==
    IF \E i \in 1..DeviceTableSize : ZMK_BOARDPILOT_DEVICE_ID[i] = device_name
    THEN (CHOOSE i \in 1..DeviceTableSize :
             /\ ZMK_BOARDPILOT_DEVICE_ID[i] = device_name
             /\ \A j \in 1..(i - 1) : ZMK_BOARDPILOT_DEVICE_ID[j] # device_name) - 1
    ELSE -1

\* (key << 4) | (layer & 0xF) stored in a uint16_t (the first form puts the layer
\* in the high bits instead)
PackLayerHigh(key, layer) == U16(((layer % 16) * 4096) + (key % 4096))
PackKey(key, layer) == U16((key * 16) + (layer % 16))

\* zmk_boardpilot_keymap_binding_to_conf(binding, item, layer, key)
zmk_boardpilot_keymap_binding_to_conf(binding, item, layer, key) ==
    LET id == zmk_boardpilot_keymap_device_id(binding.behavior_dev) IN
    IF id < 0 THEN [ret |-> -1, item |-> item]
    ELSE [ret |-> 0,
          item |-> [device |-> U8(id),
                    key |-> PackKey(key, layer),
                    param1 |-> binding.param1,
                    param2 |-> binding.param2]]

\* zmk_boardpilot_keymap_conf_to_binding(binding, item)
zmk_boardpilot_keymap_conf_to_binding(binding, item, behind) ==
    LET device_name == zmk_boardpilot_keymap_device_name(item.device, behind) IN
    IF device_name = NullName
    THEN [ret |-> -1, binding |-> binding, faults |-> DeviceNameFaults(item.device)]
    ELSE [ret |-> 0,
          binding |-> [behavior_dev |-> device_name,
                       param1 |-> item.param1,
                       param2 |-> item.param2],
          faults |-> DeviceNameFaults(item.device)]

\* a name no table entry equals
UnknownDevice == "UNKNOWN_DEV"
CodecNames == {ZMK_BOARDPILOT_DEVICE_ID[i] : i \in 1..DeviceTableSize} \cup {UnknownDevice}
\* layers and key positions the packed key has room for (4 and 12 bits)
CodecLayers == 0..15
CodecPositions == 0..4095
EdgePositions == {0, 1, 255, 256, 4094, 4095}
\* param1, param2 of a binding
CodecParams == {<<0, 0>>, <<7, 2147483647>>}

\* what the caller's output structures hold before the call
PrevBinding == [behavior_dev |-> "PREV", param1 |-> 1, param2 |-> 2]
PrevItem == [device |-> 255, key |-> 65535, param1 |-> 1, param2 |-> 2]

\* a caller about to convert a binding
FromBinding(name, layer, position, params) ==
    [phase |-> "binding", src |-> "binding",
     binding |-> [behavior_dev |-> name, param1 |-> params[1], param2 |-> params[2]],
     layer |-> layer, position |-> position,
     item |-> PrevItem, ret |-> 0, out |-> PrevBinding, ret2 |-> 0, faults |-> {}]

\* a caller about to convert a record it did not build itself
FromRecord(device, key, params) ==
    [phase |-> "record", src |-> "record",
     binding |-> PrevBinding, layer |-> 0, position |-> 0,
     item |-> [device |-> device, key |-> key, param1 |-> params[1], param2 |-> params[2]],
     ret |-> 0, out |-> PrevBinding, ret2 |-> 0, faults |-> {}]

\* the caller holds a binding of any name at any layer and an edge position, or a
\* KEY_PRESS binding at any layer and position, or a record with any device id
InitCodec ==
    /\ \/ \E n \in CodecNames, l \in CodecLayers, p \in EdgePositions, ps \in CodecParams :
             InitState(EmptyStore, FromBinding(n, l, p, ps))
       \/ \E l \in CodecLayers, p \in CodecPositions :
             InitState(EmptyStore, FromBinding("KEY_PRESS", l, p, <<7, 2147483647>>))
       \/ \E d \in 0..255, k \in {0, 65535} :
             InitState(EmptyStore, FromRecord(d, k, <<7, 2147483647>>))
    /\ sender = IdleSender

\* the caller converts its binding to a record
KeymapToRecord ==
    /\ keymap.phase = "binding"
    /\ LET r == zmk_boardpilot_keymap_binding_to_conf(keymap.binding, keymap.item,
                                                      keymap.layer, keymap.position) IN
          /\ keymap' = [keymap EXCEPT !.phase = "record", !.item = r.item, !.ret = r.ret]
          /\ last' = [op |-> "to_record", ret |-> r.ret]
    /\ UNCHANGED <<rxVars, regVars, usbVars, pc, reply, pending, current, halted,
                   nframes, nbinds, ncalls, sender, written>>

\* the caller converts the record to a binding
KeymapToBinding ==
    /\ keymap.phase = "record"
    /\ keymap.ret = 0
    /\ \E behind \in BehindTable :
          LET r == zmk_boardpilot_keymap_conf_to_binding(keymap.out, keymap.item, behind) IN
          /\ (behind # NullName) => r.faults # {}
          /\ keymap' = [keymap EXCEPT !.phase = "done", !.out = r.binding,
                                      !.ret2 = r.ret, !.faults = r.faults]
          /\ last' = [op |-> "to_binding", ret |-> r.ret]
    /\ UNCHANGED <<rxVars, regVars, usbVars, pc, reply, pending, current, halted,
                   nframes, nbinds, ncalls, sender, written>>

NextCodec ==
    \/ KeymapToRecord
    \/ KeymapToBinding

SpecCodec == InitCodec /\ [][NextCodec]_vars

\* ------------------------------------------------------------------------
\* Properties
\* ------------------------------------------------------------------------
\* a message signalled complete whose processing has not finished
Unfinished == data_parse_sem > 0 \/ pc # "wait"

\* C1: after parse signals completion of a message, no later call to parse
\* overwrites the shared header, frees or reallocates the message buffer, or starts
\* accumulating a new message until the worker has finished processing it.
C1_ParseWaitsForWorker ==
    [][(last'.op = "parse" /\ Unfinished)
          => /\ data_header' = data_header
             /\ data_buffer' = data_buffer
             /\ data_buffer_len' = 0
             /\ chunk_recv_len' = 0]_vars

\* C2: the command, total size and payload the worker dispatches are those of the
\* message whose completion produced the signal it took, and the buffer it
\* dispatches on is allocated.
C2_DispatchesSignalledMessage ==
    (last.op = "dispatch")
        => /\ last.cmd = current.cmd
           /\ last.size = current.size
           /\ last.buf = current.buf
           /\ last.buf.alloc

\* C3: every copy made by parse writes only inside the reassembly buffer and reads
\* only inside the len bytes of the frame it was given.
C3_CopiesStayInBounds ==
    (last.op = "parse")
        => last.faults \cap {"heap_overrun", "null_write", "frame_overread",
                             "rx_buffer_overread"} = {}

\* C4: a chunk-start frame whose chunk_offset differs from the number of bytes
\* accumulated for the current message is rejected with an error and its payload is
\* not added to the message.
C4_OffsetMismatchRejected ==
    [][(/\ last'.op = "parse"
        /\ last'.chunk_start
        /\ last'.len >= HEADER_SIZE
        /\ last'.hdr.chunk_offset # data_buffer_len)
          => /\ last'.ret < 0
             /\ data_buffer' = data_buffer
             /\ data_buffer_len' = data_buffer_len]_vars

\* C5: a message of total size T sent as in-order frames of at most 24 payload bytes
\* is signalled complete exactly once, on frame ceil(T/24) and on no earlier one; the
\* buffer then holds the T payload bytes in order and both counters are zero.
C5_InOrderReassembly ==
    (sender.total > 0)
        => /\ sender.signals = (IF sender.sent = sender.total THEN 1 ELSE 0)
           /\ data_parse_sem = sender.signals
           /\ (sender.sent < sender.total) => (data_buffer_len = sender.sent)
           /\ (sender.sent = sender.total)
                 => /\ sender.frames = (sender.total + ZMK_BOARDPILOT_REPORT_DATA_SIZE - 1)
                                           \div ZMK_BOARDPILOT_REPORT_DATA_SIZE
                    /\ data_buffer.alloc
                    /\ data_buffer.mem = Payload(sender.seed, sender.total)
                    /\ data_buffer_len = 0
                    /\ chunk_recv_len = 0

\* C5 witness: the 100-byte message is complete after its fifth frame
C5_Witness ==
    /\ sender.total = 100
    /\ sender.sent = 100
    /\ sender.frames = 5
    /\ last.op = "parse"
    /\ last.gave

\* C6: when the first frame of a new message has a report id other than 0x05, parse
\* returns an error and retains nothing: header, buffer and both counters keep their
\* values and no completion is signalled.
C6_BadReportIdRetainsNothing ==
    [][(/\ last'.op = "parse"
        /\ data_buffer_len = 0
        /\ chunk_recv_len = 0
        /\ last'.len >= 1
        /\ last'.hdr.report_id # REPORT_ID)
          => /\ last'.ret < 0
             /\ data_header' = data_header
             /\ data_buffer' = data_buffer
             /\ data_buffer_len' = data_buffer_len
             /\ chunk_recv_len' = chunk_recv_len
             /\ data_parse_sem' = data_parse_sem]_vars

\* C7: whenever parse returns an error, on the first frame or in the middle of a
\* message, the reassembly state is reset: both counters are zero afterwards and no
\* completion is signalled.
C7_ErrorResetsReassembly ==
    (last.op = "parse" /\ last.ret < 0)
        => /\ data_buffer_len = 0
           /\ chunk_recv_len = 0
           /\ ~last.gave

\* the key was bound by a successful bind
KeyBound(key) ==
    /\ bp_initialized
    /\ key # ZMK_CONFIG_KEY_INVALID
    /\ \E i \in 1..MaxFields : fields[i].key = key
SlotOf(key) == CHOOSE i \in 1..MaxFields : fields[i].key = key

\* the SET_CONFIG message carries its 5-byte prefix and declaredSize bytes of data
CarriesData(buf, conf) == Len(buf.mem) >= SET_CONFIG_PREFIX + conf.size
PayloadData(buf, conf) ==
    SubSeq(buf.mem, SET_CONFIG_PREFIX + 1, SET_CONFIG_PREFIX + conf.size)

\* C8: a SET_CONFIG whose key is not bound, or whose declaredSize differs from the
\* bound field's size, returns an error and mutates nothing: no field, no flag, not
\* the store, and no update callback runs.
C8_InvalidSetConfigRejected ==
    [][(/\ last'.op = "set_config"
        /\ \/ ~KeyBound(last'.conf.key)
           \/ fields[SlotOf(last'.conf.key)].size # last'.conf.size)
          => /\ last'.ret < 0
             /\ fields' = fields
             /\ nvs' = nvs
             /\ last'.cb_calls = 0]_vars

\* C9: a SET_CONFIG message for a bound key that is shorter than the 5-byte prefix
\* plus declaredSize is rejected and leaves the field buffers unmodified; the copy never takes bytes from
\* beyond the end of the received message.
C9_TruncatedSetConfigRejected ==
    [][(/\ last'.op = "set_config"
        /\ KeyBound(last'.conf.key)
        /\ ~CarriesData(last'.buf, last'.conf))
          => /\ last'.ret < 0
             /\ \A i \in 1..MaxFields : fields'[i].data = fields[i].data
             /\ "msg_overread" \notin last'.faults]_vars

\* C10: a SET_CONFIG on a bound key with declaredSize equal to the field's size, the
\* message carrying that many data bytes: the field buffer then equals the payload
\* data; the registry write is invoked iff the field is saveable and saveFlag is
\* non-zero; the update callback, if present, runs exactly once and after the copy,
\* whatever the persistence did; and the command reports success.
C10_SetConfigApplies ==
    [][(/\ last'.op = "set_config"
        /\ KeyBound(last'.conf.key)
        /\ fields[SlotOf(last'.conf.key)].size = last'.conf.size
        /\ CarriesData(last'.buf, last'.conf))
          => LET i == SlotOf(last'.conf.key)
                 saves == /\ HasFlag(fields[i].flags, ZMK_BOARDPILOT_FIELD_FLAG_SAVEABLE)
                          /\ last'.conf.save # 0
             IN /\ last'.ret = 0
                /\ last'.found = i
                /\ fields'[i].data = PayloadData(last'.buf, last'.conf)
                /\ last'.wrote = saves
                /\ last'.stored = saves
                /\ last'.cb_calls = (IF fields[i].on_update THEN 1 ELSE 0)
                /\ fields[i].on_update
                      => last'.cb_saw = PayloadData(last'.buf, last'.conf)]_vars

\* C10 witness: a complete SET_CONFIG on a saveable field with a callback, saveFlag
\* set, whose persistence failed: the callback ran once and the command succeeded
C10_Witness ==
    /\ last.op = "set_config"
    /\ KeyBound(last.conf.key)
    /\ CarriesData(last.buf, last.conf)
    /\ last.conf.size = 2
    /\ last.ret = 0
    /\ last.wrote
    /\ last.write_ret < 0
    /\ last.cb_calls = 1
    /\ fields[last.found].data = <<161, 162>>

\* the GET_CONFIG request in the buffer the worker dispatches on, when the buffer
\* holds its four bytes
CarriesRequest == data_buffer.alloc /\ Len(data_buffer.mem) >= GET_CONFIG_PREFIX
RequestKey == GetConfigMsg(data_buffer, 0).key
RequestMaxSize == GetConfigMsg(data_buffer, 0).size

\* a step of the worker that dispatches a GET_CONFIG
DispatchesGet ==
    /\ last'.op = "dispatch"
    /\ data_header.cmd = ZMK_BOARDPILOT_CMD_GET_CONFIG
    /\ CarriesRequest

\* C11: a GET_CONFIG for a key that is not bound, or with maxSize smaller than the
\* field's size, returns an error and makes no streaming attempt: the send loop is
\* not entered, no frame is handed to the transport and no field is modified.
C11_InvalidGetConfigRejected ==
    [][(/\ DispatchesGet
        /\ \/ ~KeyBound(RequestKey)
           \/ fields[SlotOf(RequestKey)].size > RequestMaxSize)
          => /\ last'.ret < 0
             /\ pc' # "send"
             /\ tx' = tx
             /\ fields' = fields]_vars

\* header and chunk of a reply frame
FrameHeader(f) == ReadHeader(f, 0)
FrameChunk(f) == SubSeq(f, HEADER_SIZE + 1, HEADER_SIZE + FrameHeader(f).chunk_size)

\* sum of the chunk_size of the frames, and their chunks put end to end
RECURSIVE ChunkSum(_)
ChunkSum(fs) ==
    IF fs = <<>> THEN 0 ELSE FrameHeader(Head(fs)).chunk_size + ChunkSum(Tail(fs))
RECURSIVE ChunkConcat(_)
ChunkConcat(fs) ==
    IF fs = <<>> THEN <<>> ELSE FrameChunk(Head(fs)) \o ChunkConcat(Tail(fs))

\* every pass of the send loop so far handed its frame to the transport
AllSent == Len(tx) * ZMK_BOARDPILOT_REPORT_DATA_SIZE = reply.total

\* the key the reply being streamed carries
ReplyKey == reply.buf.mem[1] + 256 * reply.buf.mem[2]

\* C12: a GET_CONFIG on a bound field with maxSize >= field.size whose sends all
\* succeed: the reply is key, field.size, the field's bytes; every frame carries
\* report id 0x05, cmd GET_CONFIG and total size 4 + field.size; its chunk_offset is
\* the sum of the chunk_size of the earlier frames, its chunk_size min(remaining, 24);
\* the last frame ends at the total size and the chunks put end to end are the reply.
C12_ReplyFraming ==
    [][/\ (/\ DispatchesGet
           /\ KeyBound(RequestKey)
           /\ fields[SlotOf(RequestKey)].size <= RequestMaxSize
           /\ pc' = "send")
             => LET fld == fields[SlotOf(RequestKey)]
                IN /\ reply'.buf.mem = LE16(RequestKey) \o LE16(fld.size) \o fld.data
                   /\ reply'.size = GET_CONFIG_PREFIX + fld.size
                   /\ reply'.total = 0
                   /\ tx' = <<>>
       /\ (/\ pc = "send"
           /\ last'.op = "send"
           /\ KeyBound(ReplyKey)
           /\ AllSent
           /\ last'.wrote)
             => LET fld == fields[SlotOf(ReplyKey)]
                    f == tx'[Len(tx')]
                    h == FrameHeader(f)
                IN /\ tx' = Append(tx, f)
                   /\ reply.buf.mem = LE16(ReplyKey) \o LE16(fld.size) \o fld.data
                   /\ h.report_id = REPORT_ID
                   /\ h.cmd = ZMK_BOARDPILOT_CMD_GET_CONFIG
                   /\ h.size = GET_CONFIG_PREFIX + fld.size
                   /\ h.chunk_offset = ChunkSum(tx)
                   /\ h.chunk_size = Min(h.size - ChunkSum(tx),
                                         ZMK_BOARDPILOT_REPORT_DATA_SIZE)
                   /\ ChunkConcat(tx') = SubSeq(reply.buf.mem, 1, ChunkSum(tx'))
                   /\ (pc' = "send") <=> (ChunkSum(tx') < h.size)
                   /\ (pc' = "free")
                         => /\ h.chunk_offset + h.chunk_size = h.size
                            /\ ChunkConcat(tx') = reply.buf.mem]_vars

\* C12 witness: the reply of the long field went out in three frames, the last one
\* carrying the one byte at offset 48
C12_Witness ==
    /\ last.op = "send"
    /\ last.err = 0
    /\ pc = "free"
    /\ Len(tx) = 3
    /\ FrameHeader(tx[1]).chunk_offset = 0
    /\ FrameHeader(tx[2]).chunk_offset = ZMK_BOARDPILOT_REPORT_DATA_SIZE
    /\ FrameHeader(tx[3]).chunk_offset = 2 * ZMK_BOARDPILOT_REPORT_DATA_SIZE
    /\ FrameHeader(tx[3]).chunk_size = 1
    /\ FrameHeader(tx[3]).size = GET_CONFIG_PREFIX + LongField

\* C13: at most one outbound frame is in flight: send_report writes only after it
\* acquired the gate; when the wait for the gate expires it returns an error, writes
\* nothing and does not release the gate it does not hold.
C13_SingleFrameInFlight ==
    /\ inflight <= 1
    /\ (last.op = "send" /\ last.wrote) => last.took
    /\ (last.op = "send" /\ last.status = "configured" /\ last.gate = 0)
          => /\ last.err # 0
             /\ ~last.wrote
             /\ hid_sem = 0

\* C14: when handing a reply frame to the transport fails, no further frame of the
\* reply is sent, the frames already sent stay sent, the reply buffer is released and
\* the worker frees the message and waits for the next one.
C14_FailedSendAbandonsReply ==
    [][/\ (last'.op = "send" /\ last'.err # 0)
             => /\ tx' = tx
                /\ ~reply'.buf.alloc
                /\ pc' = "free"
       /\ (pc = "free" /\ pc' # pc)
             => /\ last'.op = "free"
                /\ pc' = "wait"
                /\ tx' = tx]_vars

\* C14 witness: the second frame of a reply failed after the first went out, and the
\* worker is about to free the message
C14_Witness ==
    /\ last.op = "send"
    /\ last.err # 0
    /\ Len(tx) = 1
    /\ FrameHeader(tx[1]).size > ZMK_BOARDPILOT_REPORT_DATA_SIZE
    /\ ~reply.buf.alloc
    /\ pc = "free"

\* slots that carry a bound key
BoundSlots(f) == {i \in 1..MaxFields : f[i].key # ZMK_CONFIG_KEY_INVALID}

\* C15: for every key K bound successfully, get(K) returns a field whose key is K and
\* whose size is the size given at K's successful bind; a bind of an already bound
\* key fails and leaves the registry unchanged; no two entries carry the same bound
\* key.
C15_BindGetConsistent ==
    [][/\ (last'.op = "bind" /\ KeyBound(last'.key))
             => /\ last'.ret = 0
                /\ fields' = fields
       /\ (last'.op = "bind" /\ last'.ret # 0)
             => /\ fields'[last'.ret].key = last'.key
                /\ fields'[last'.ret].size = last'.size
                /\ last'.key # ZMK_CONFIG_KEY_INVALID
       /\ \A i \in BoundSlots(fields) :
             /\ fields'[i].key = fields[i].key
             /\ fields'[i].size = fields[i].size
       /\ \A i \in BoundSlots(fields') :
             /\ \A j \in 1..MaxFields : (fields'[j].key = fields'[i].key) => (j = i)
             /\ bp_initialized'
             /\ zmk_boardpilot_get([init |-> bp_initialized', fields |-> fields',
                                    nvs |-> nvs'], fields'[i].key) = i
       /\ (last'.op = "get" /\ KeyBound(last'.key))
             => /\ last'.ret = SlotOf(last'.key)
                /\ fields[last'.ret].key = last'.key]_vars

\* C15 witness: a bind of an already bound key, with another size, failed and the
\* field kept its size
C15_Witness ==
    /\ last.op = "bind"
    /\ last.ret = 0
    /\ KeyBound(last.key)
    /\ fields[SlotOf(last.key)].size # last.size

\* C16: get(key) returns NotFound for every key that was not bound successfully, the
\* reserved key 0x0000 included, and changes neither the registry nor the store.
C16_GetUnboundNotFound ==
    [][(last'.op = "get")
          => /\ (~KeyBound(last'.key)) => (last'.ret = 0)
             /\ fields' = fields
             /\ bp_initialized' = bp_initialized
             /\ nvs' = nvs]_vars

\* C17: the number of bound fields never exceeds the capacity; once as many distinct
\* keys are bound as the table has slots, every further bind fails and leaves all
\* entries unchanged.
C17_CapacityRespected ==
    [][/\ Cardinality({fields'[i].key : i \in BoundSlots(fields')}) <= MaxFields
       /\ (last'.op = "bind" /\ Cardinality(BoundSlots(fields)) = MaxFields)
             => /\ last'.ret = 0
                /\ fields' = fields
                /\ nvs' = nvs]_vars

\* C17 witness: the table is full and a bind of a key that is not bound failed
C17_Witness ==
    /\ last.op = "bind"
    /\ last.ret = 0
    /\ last.key # ZMK_CONFIG_KEY_INVALID
    /\ ~KeyBound(last.key)
    /\ Cardinality(BoundSlots(fields)) = MaxFields

\* the key is bound and its field is saveable
SaveableBound(key) ==
    /\ KeyBound(key)
    /\ HasFlag(fields[SlotOf(key)].flags, ZMK_BOARDPILOT_FIELD_FLAG_SAVEABLE)

\* C18: read(key) on a saveable field whose persisted record has another length than
\* the field: the live buffer is left unchanged, the store is rewritten with the
\* field's current bytes, field.size of them, and when that write succeeds read
\* returns success with READ and WRITTEN set.
C18_MismatchedRecordRepersisted ==
    [][(/\ last'.op = "read"
        /\ SaveableBound(last'.key)
        /\ last'.read_ok
        /\ Len(nvs[last'.key]) > 0
        /\ Len(nvs[last'.key]) # fields[SlotOf(last'.key)].size)
          => LET i == SlotOf(last'.key)
             IN /\ fields'[i].data = fields[i].data
                /\ last'.stored
                /\ last'.write_ok
                      => /\ nvs'[last'.key] = fields[i].data
                         /\ Len(nvs'[last'.key]) = fields[i].size
                         /\ last'.ret = 0
                         /\ HasFlag(fields'[i].flags, ZMK_BOARDPILOT_FIELD_FLAG_READ)
                         /\ HasFlag(fields'[i].flags, ZMK_BOARDPILOT_FIELD_FLAG_WRITTEN)]_vars

\* C18 witness: a read found a record of another length, kept the changed live value
\* and stored it
C18_Witness ==
    /\ last.op = "read"
    /\ last.stored
    /\ last.ret = 0
    /\ KeyBound(last.key)
    /\ fields[SlotOf(last.key)].data = Pattern(77, 0, fields[SlotOf(last.key)].size)
    /\ nvs[last.key] = fields[SlotOf(last.key)].data

\* C19: for a saveable bound field, a successful write(key), then any modification of
\* the live buffer, then read(key) restores the bytes the buffer held at the write,
\* provided the record's length equals the field's size and the store does not fail.
C19_WriteReadRoundTrip ==
    [][(/\ last'.op = "read"
        /\ SaveableBound(last'.key)
        /\ written.key = last'.key
        /\ last'.read_ok
        /\ Len(nvs[last'.key]) = fields[SlotOf(last'.key)].size)
          => /\ last'.ret = 0
             /\ fields'[SlotOf(last'.key)].data = written.data]_vars

\* C20: write(key) fails without calling the store when the key is unknown or the
\* field is not saveable; otherwise it stores the field's current bytes, field.size of
\* them, under the key; on store failure it clears WRITTEN and returns an error, on
\* success it sets READ and WRITTEN and returns success.
C20_WriteContract ==
    [][(last'.op = "write")
          => IF ~SaveableBound(last'.key)
             THEN /\ last'.ret < 0
                  /\ ~last'.stored
                  /\ nvs' = nvs
                  /\ fields' = fields
             ELSE LET i == SlotOf(last'.key)
                  IN /\ last'.stored
                     /\ fields'[i].data = fields[i].data
                     /\ IF last'.nvs_ok
                        THEN /\ last'.ret = 0
                             /\ nvs'[last'.key] = fields[i].data
                             /\ Len(nvs'[last'.key]) = fields[i].size
                             /\ HasFlag(fields'[i].flags, ZMK_BOARDPILOT_FIELD_FLAG_READ)
                             /\ HasFlag(fields'[i].flags,
                                        ZMK_BOARDPILOT_FIELD_FLAG_WRITTEN)
                        ELSE /\ last'.ret < 0
                             /\ nvs' = nvs
                             /\ ~HasFlag(fields'[i].flags,
                                         ZMK_BOARDPILOT_FIELD_FLAG_WRITTEN)]_vars

\* C20 witness: a write failed in the store after an earlier one had set WRITTEN, and
\* WRITTEN is cleared
C20_Witness ==
    /\ last.op = "write"
    /\ last.stored
    /\ last.ret < 0
    /\ written.key = last.key
    /\ KeyBound(last.key)
    /\ ~HasFlag(fields[SlotOf(last.key)].flags, ZMK_BOARDPILOT_FIELD_FLAG_WRITTEN)
    /\ HasFlag(fields[SlotOf(last.key)].flags, ZMK_BOARDPILOT_FIELD_FLAG_READ)

\* the caller's binding names a table entry
NameInTable(name) == \E i \in 1..DeviceTableSize : ZMK_BOARDPILOT_DEVICE_ID[i] = name

\* C21: for every name of the device table, every layer in 0..15 and every position
\* in 0..4095, converting the binding to a record succeeds, the record's key has the
\* layer in its low 4 bits and the position in its high 12 bits, and converting the
\* record back succeeds with the same name, param1 and param2; a name that is not in
\* the table makes the conversion to a record fail.
C21_CodecRoundTrip ==
    (keymap.phase \in {"record", "done"} /\ keymap.src = "binding")
       => IF NameInTable(keymap.binding.behavior_dev)
          THEN /\ keymap.ret = 0
               /\ keymap.item.key % 16 = keymap.layer
               /\ keymap.item.key \div 16 = keymap.position
               /\ ZMK_BOARDPILOT_DEVICE_ID[keymap.item.device + 1]
                     = keymap.binding.behavior_dev
               /\ (keymap.phase = "done")
                     => /\ keymap.ret2 = 0
                        /\ keymap.faults = {}
                        /\ keymap.out = keymap.binding
          ELSE /\ keymap.ret < 0
               /\ keymap.phase = "record"
               /\ keymap.item = PrevItem

C21_Witness ==
    /\ keymap.phase = "done"
    /\ keymap.src = "binding"
    /\ keymap.binding = [behavior_dev |-> "TOGGLE_LAYER", param1 |-> 7,
                         param2 |-> 2147483647]
    /\ keymap.layer = 15
    /\ keymap.position = 4095
    /\ keymap.item.key = 65535
    /\ keymap.out = keymap.binding

\* C22: converting a record to a binding fails and leaves the output binding as it
\* was for every record whose device id is not one of the table's indices 0..30,
\* the lookup never reads outside the table, and for an id inside the table the
\* binding gets exactly that entry's name.
C22_UnknownDeviceIdRejected ==
    (keymap.phase = "done")
       => /\ keymap.faults = {}
          /\ IF keymap.item.device \in 0..(DeviceTableSize - 1)
             THEN /\ keymap.ret2 = 0
                  /\ keymap.out.behavior_dev
                        = ZMK_BOARDPILOT_DEVICE_ID[keymap.item.device + 1]
             ELSE /\ keymap.ret2 < 0
                  /\ keymap.out = PrevBinding

\* how often the first n events of ev took the mutex of slot i, less how often they
\* released it
RECURSIVE HeldCount(_, _, _)
HeldCount(ev, n, i) ==
    IF n = 0 THEN 0
    ELSE HeldCount(ev, n - 1, i)
            + (IF ev[n] = <<"lock", i>> THEN 1
               ELSE IF ev[n] = <<"unlock", i>> THEN -1 ELSE 0)

\* some mutex is held when event n of ev happens
HeldAt(ev, n) == \E i \in 1..MaxFields : HeldCount(ev, n - 1, i) > 0

\* the last step was a call that works on a field
FieldCall == last.op \in {"read", "write", "set_config"}

\* C23: on every path of read, write and set_config a field's mutex is released by
\* the time the call returns, it is held only while nvs_read, nvs_write or the copy
\* out of the field buffer runs (never while read calls write, never while
\* set_config calls write or the update callback), the store is only touched with
\* the field's mutex held, and a mutex is released only by a call that holds it.
C23_LockScope ==
    FieldCall
       => /\ \A i \in 1..MaxFields : HeldCount(last.ev, Len(last.ev), i) = 0
          /\ \A n \in 1..Len(last.ev) :
                /\ HeldAt(last.ev, n)
                      => last.ev[n][1] \in {"nvs_read", "nvs_write", "copy", "unlock"}
                /\ (last.ev[n][1] \in {"nvs_read", "nvs_write", "copy"})
                      => HeldCount(last.ev, n - 1, last.ev[n][2]) = 1
                /\ (last.ev[n][1] = "unlock")
                      => HeldCount(last.ev, n - 1, last.ev[n][2]) = 1
                /\ (last.ev[n][1] = "lock")
                      => ~HeldAt(last.ev, n)

\* read found a record of another length and wrote the field back
C23_Witness ==
    /\ last.op = "read"
    /\ \E i \in 1..MaxFields :
          last.ev = <<<<"lock", i>>, <<"nvs_read", i>>, <<"unlock", i>>, <<"write", i>>,
                      <<"lock", i>>, <<"nvs_write", i>>, <<"unlock", i>>>>

\* slot i holds a bound field before the step and the same field after it
StaysBound(i) ==
    /\ fields[i].key # ZMK_CONFIG_KEY_INVALID
    /\ fields'[i].key = fields[i].key

\* C24: whether a bound field is saveable never changes after the bind: no read,
\* write or modification, with the store working, failing or holding a record of
\* another length, sets or clears the SAVEABLE flag of a bound field.
C24_SaveableFixedAtBind ==
    [][\A i \in 1..MaxFields :
          StaysBound(i)
             => (HasFlag(fields'[i].flags, ZMK_BOARDPILOT_FIELD_FLAG_SAVEABLE)
                   <=> HasFlag(fields[i].flags, ZMK_BOARDPILOT_FIELD_FLAG_SAVEABLE))]_vars

\* frames a reply of size bytes is cut into: ceil(size / ZMK_BOARDPILOT_REPORT_DATA_SIZE)
FramesOf(size) ==
    (size + ZMK_BOARDPILOT_REPORT_DATA_SIZE - 1) \div ZMK_BOARDPILOT_REPORT_DATA_SIZE

\* a pass of the send loop has bytes left to send and keeps the frames handed to the
\* transport within the frames of the reply
SendWithinReply ==
    (last'.op = "send")
       => /\ reply.total < reply.size
          /\ Len(tx') <= FramesOf(reply.size)
          /\ reply.size = GET_CONFIG_PREFIX + (reply.buf.mem[3] + 256 * reply.buf.mem[4])

\* C25: with the worker thread scheduled and every wait on the gate bounded,
\* processing always finishes: a completion signal is eventually taken and its
\* message dispatched, the reply to a GET_CONFIG for a field of s bytes hands at
\* most ceil((4 + s) / 24) frames to the transport, the send loop ends, and the
\* worker gets back to waiting for the next signal with the message buffer released.
C25_ProcessingFinishes ==
    /\ [][SendWithinReply]_vars
    /\ (data_parse_sem > 0) ~> (pc = "dispatch")
    /\ (pc = "send") ~> (pc = "free")
    /\ (pc # "wait") ~> (pc = "wait" /\ last.op = "free")

====
